---------------------------- MODULE Spec2Model ----------------------------
(***************************************************************************)
(* A model of src/app.py: the generation pipeline (create task, poll the   *)
(* outputs, download, archive, append to the index log), the retention     *)
(* sweep and the token-gated list and download endpoints.                  *)
(*                                                                         *)
(* Strings that the code formats, splits, globs or compares are sequences  *)
(* of one-character strings, so that a prefix, a split at "_" or a parse   *)
(* is computed the way the code computes it.  Time is a whole number of    *)
(* seconds; the UTC stamp is a fixed-width, zero-padded digit string (two  *)
(* digits stand for the sixteen characters of YYYYMMDDTHHMMSSZ).           *)
(***************************************************************************)
EXTENDS Integers, Sequences, FiniteSets, TLC

(***************************************************************************)
(* Bounds of the model.                                                    *)
(***************************************************************************)
\* The number of earlier runs whose archive ArchSpec can start from.
MaxPrior == 3
\* The largest limit passed to the list endpoint (500 in the code).
MaxLimit == 2
\* Requests are started only while the clock is at most MaxTime.
MaxTime == 3
\* A query of the outputs endpoint takes 0..MaxLatency seconds.
MaxLatency == 1
\* The number of lines of a log that was not written by the program alone.
MaxLines == 3
\* The number of seconds in one day of the retention window (86400, scaled).
SecsPerDay == 2

(***************************************************************************)
(* Program constants, scaled to the model's clock.                         *)
(***************************************************************************)
\* poll_outputs(task_id, timeout_sec=300, interval_sec=3)
timeout_sec == 3
interval_sec == 1

(***************************************************************************)
(* Strings and conversions.                                                *)
(***************************************************************************)
Digits == <<"0", "1", "2", "3", "4", "5", "6", "7", "8", "9">>

IsDigit(c) == \E d \in 1..10 : Digits[d] = c

DigitVal(c) == (CHOOSE d \in 1..10 : Digits[d] = c) - 1

IsPrefix(p, s) == Len(p) <= Len(s) /\ SubSeq(s, 1, Len(p)) = p

\* The decimal digits of a natural number, most significant first.
RECURSIVE DecStr(_)
DecStr(n) == IF n < 10 THEN <<Digits[n + 1]>>
             ELSE DecStr(n \div 10) \o <<Digits[(n % 10) + 1]>>

\* The value of a non-empty string of decimal digits.
RECURSIVE DecVal(_)
DecVal(s) == IF Len(s) = 1 THEN DigitVal(s[1])
             ELSE 10 * DecVal(SubSeq(s, 1, Len(s) - 1)) + DigitVal(s[Len(s)])

AllDigits(s) == Len(s) >= 1 /\ \A i \in 1..Len(s) : IsDigit(s[i])

\* Python's int(s) on a string: an optional sign, then decimal digits.
\* ok = FALSE stands for the ValueError.
int(s) ==
    IF AllDigits(s) THEN [ok |-> TRUE, val |-> DecVal(s)]
    ELSE IF Len(s) >= 2 /\ s[1] = "-" /\ AllDigits(Tail(s))
         THEN [ok |-> TRUE, val |-> 0 - DecVal(Tail(s))]
    ELSE IF Len(s) >= 2 /\ s[1] = "+" /\ AllDigits(Tail(s))
         THEN [ok |-> TRUE, val |-> DecVal(Tail(s))]
    ELSE [ok |-> FALSE, val |-> 0]

\* strftime("%Y%m%dT%H%M%SZ") of the clock value t: fixed width, zero padded.
utc_stamp(t) == <<Digits[((t \div 10) % 10) + 1], Digits[(t % 10) + 1]>>

\* strptime(stamp, "%Y%m%dT%H%M%SZ"): ok = FALSE stands for the ValueError.
strptime(s) ==
    IF Len(s) = 2 /\ IsDigit(s[1]) /\ IsDigit(s[2])
    THEN [ok |-> TRUE, val |-> 10 * DigitVal(s[1]) + DigitVal(s[2])]
    ELSE [ok |-> FALSE, val |-> 0]

\* name.split("_", 1)[0]: the part before the first underscore, or the
\* whole name when it has none.
RECURSIVE FirstSegment(_)
FirstSegment(s) ==
    IF s = <<>> THEN <<>>
    ELSE IF Head(s) = "_" THEN <<>>
    ELSE <<Head(s)>> \o FirstSegment(Tail(s))

\* f"bag-{opt:02d}"
bag_label(opt) ==
    <<"b", "a", "g", "-">> \o (IF opt < 10 THEN <<"0">> ELSE <<>>) \o DecStr(opt)

\* safe_ext_from_mime: mimetypes.guess_extension restricted to an allow-list.
safe_ext_from_mime(mime) ==
    IF mime = "image/png" THEN <<".", "p", "n", "g">>
    ELSE IF mime = "image/jpeg" THEN <<".", "j", "p", "g">>
    ELSE IF mime = "image/webp" THEN <<".", "w", "e", "b", "p">>
    ELSE <<".", "b", "i", "n">>

\* archive_id = f"{ts}_{bag_label}_task_{task_id}"
ArchiveId(ts, opt, task_id) ==
    ts \o <<"_">> \o bag_label(opt) \o <<"_", "t", "a", "s", "k", "_">> \o task_id

\* input_filename = f"{ts}_{bag_label}_task_{task_id}_input{in_ext}"
InputFilename(ts, opt, task_id, mime) ==
    ArchiveId(ts, opt, task_id) \o <<"_", "i", "n", "p", "u", "t">>
        \o safe_ext_from_mime(mime)

\* output_filename = f"{ts}_{bag_label}_task_{task_id}_output.png"
OutputFilename(ts, opt, task_id) ==
    ArchiveId(ts, opt, task_id)
        \o <<"_", "o", "u", "t", "p", "u", "t", ".", "p", "n", "g">>

\* The pattern matching of Path.glob on one name: "*" stands for any run of
\* characters and "?" for any one character; the others stand for themselves.
RECURSIVE fnmatch(_, _)
fnmatch(name, pat) ==
    IF pat = <<>> THEN name = <<>>
    ELSE IF Head(pat) = "*"
         THEN fnmatch(name, Tail(pat)) \/ (name # <<>> /\ fnmatch(Tail(name), pat))
    ELSE /\ name # <<>>
         /\ Head(pat) = "?" \/ Head(pat) = Head(name)
         /\ fnmatch(Tail(name), Tail(pat))

\* folder.glob(f"{archive_id}_*"): the names that match the pattern made of
\* archive_id, "_" and "*".
GlobPrefix(dir, archive_id) ==
    {n \in DOMAIN dir : fnmatch(n, archive_id \o <<"_", "*">>)}

(***************************************************************************)
(* Configuration and the domains of the inputs.                            *)
(***************************************************************************)
\* The values the environment can give ARCHIVE_TOKEN ("" when unset).
TokenConfigs == {"", "s3cret"}

\* The values the environment can give ARCHIVE_RETENTION_DAYS, stripped.
RetentionConfigs == {<<>>, <<"x">>, <<"0">>, <<"-", "1">>, <<"1">>}

Reqs == {"r1", "r2"}

\* productOption as posted.
OptionInputs == {<<"x">>, <<"0">>, <<"1">>}

\* The uploaded bytes and the content type that comes with them.
Uploads == {<<>>, <<7, 8>>}
Mimes == {"image/png"}

\* Task identifiers are opaque strings chosen by the remote.
TaskIds == {<<"T", "1">>, <<"T", "1", "_", "x">>}

\* The bytes served at an output URL.
OutputBlobs == {<<1, 2, 3>>}

\* One output descriptor; "" stands for an absent (or empty) field.
NoUrl == [fileUrl |-> "", imageUrl |-> "", url |-> "", image_url |-> ""]
OutputLists ==
    { <<[NoUrl EXCEPT !.imageUrl = "http://x/img.png", !.url = "http://x/u.png"]>>,
      <<NoUrl>> }

\* What the create endpoint can answer.  kind = "fail" is a transport or
\* HTTP-status failure inside rh_post; data.shape = "null" is a JSON null,
\* "missing" an absent data key.  taskId and id hold at most one string.
CreateData(tid) ==
    { [shape |-> "null", taskId |-> {}, id |-> {}],
      [shape |-> "missing", taskId |-> {}, id |-> {}],
      [shape |-> "dict", taskId |-> {}, id |-> {}],
      [shape |-> "dict", taskId |-> {tid}, id |-> {}],
      [shape |-> "dict", taskId |-> {<<>>}, id |-> {tid}] }

CreateResponses(tid) ==
    { [kind |-> "fail", code |-> 0, data |-> [shape |-> "null", taskId |-> {}, id |-> {}]],
      [kind |-> "json", code |-> 500, data |-> [shape |-> "null", taskId |-> {}, id |-> {}]] }
    \cup { [kind |-> "json", code |-> 0, data |-> d] : d \in CreateData(tid) }

\* What the outputs endpoint can answer.  data.shape = "list" is a direct
\* list, "dict" an object whose outputs key holds the list.
OutputsResponses ==
    { [kind |-> "fail", code |-> 0, data |-> [shape |-> "null", items |-> <<>>]],
      [kind |-> "json", code |-> 804, data |-> [shape |-> "null", items |-> <<>>]],
      [kind |-> "json", code |-> 500, data |-> [shape |-> "null", items |-> <<>>]],
      [kind |-> "json", code |-> 0, data |-> [shape |-> "null", items |-> <<>>]],
      [kind |-> "json", code |-> 0, data |-> [shape |-> "list", items |-> <<>>]],
      [kind |-> "json", code |-> 0, data |-> [shape |-> "dict", items |-> <<>>]] }
    \cup { [kind |-> "json", code |-> 0, data |-> [shape |-> s, items |-> l]] :
             s \in {"list", "dict"}, l \in OutputLists }

(***************************************************************************)
(* RemoteTaskClient: the pure part of create_task, poll_outputs and        *)
(* pick_image_url.  err = "" means no exception; otherwise err is the      *)
(* class name of the exception raised.                                     *)
(***************************************************************************)
\* Python truthiness of an optional string.
Truthy(opt) == \E x \in opt : x # <<>>

TheOne(opt) == CHOOSE x \in opt : TRUE

\* a or b, for optional strings.
Or(a, b) == IF Truthy(a) THEN a ELSE b

create_task(resp) ==
    IF resp.kind = "fail" THEN [err |-> "HTTPError", task_id |-> <<>>]
    ELSE IF resp.code # 0 THEN [err |-> "RuntimeError", task_id |-> <<>>]
    ELSE IF resp.data.shape = "null"
         \* resp.get("data", {}) is None: None.get raises.
         THEN [err |-> "AttributeError", task_id |-> <<>>]
    ELSE LET task_id == Or(resp.data.taskId, resp.data.id)
         IN  IF ~Truthy(task_id) THEN [err |-> "RuntimeError", task_id |-> <<>>]
             ELSE [err |-> "", task_id |-> TheOne(task_id)]

\* Mutant: the loop test gives up one second early.
PollDeadlineOpen_Early(t, start) == t - start < timeout_sec - 1

\* The loop test of poll_outputs: time.time() - start < timeout_sec.
PollDeadlineOpen(t, start) == t - start < timeout_sec

\* Mutant: an empty result under code 0 is taken for "still processing".
poll_step_RetryEmpty(resp) ==
    IF resp.kind = "fail" THEN [next |-> "raise", err |-> "HTTPError", outputs |-> <<>>]
    ELSE IF resp.code = 0 /\ resp.data.shape \in {"list", "dict"} /\ resp.data.items # <<>>
         THEN [next |-> "return", err |-> "", outputs |-> resp.data.items]
    ELSE IF resp.code \in {0, 804}
         THEN [next |-> "sleep", err |-> "", outputs |-> <<>>]
    ELSE [next |-> "raise", err |-> "RuntimeError", outputs |-> <<>>]

\* Mutant: every code other than 0 is taken for "still processing".
poll_step_RetryAnyCode(resp) ==
    IF resp.kind = "fail" THEN [next |-> "raise", err |-> "HTTPError", outputs |-> <<>>]
    ELSE IF resp.code = 0
         THEN IF resp.data.shape \in {"list", "dict"} /\ resp.data.items # <<>>
              THEN [next |-> "return", err |-> "", outputs |-> resp.data.items]
              ELSE [next |-> "raise", err |-> "RuntimeError", outputs |-> <<>>]
    ELSE [next |-> "sleep", err |-> "", outputs |-> <<>>]

\* One pass of the body of the polling loop on a response:
\* next = "return" | "sleep" | "raise".
poll_step(resp) ==
    IF resp.kind = "fail" THEN [next |-> "raise", err |-> "HTTPError", outputs |-> <<>>]
    ELSE IF resp.code = 0
         THEN IF resp.data.shape \in {"list", "dict"} /\ resp.data.items # <<>>
              THEN [next |-> "return", err |-> "", outputs |-> resp.data.items]
              ELSE [next |-> "raise", err |-> "RuntimeError", outputs |-> <<>>]
    ELSE IF resp.code = 804
         THEN [next |-> "sleep", err |-> "", outputs |-> <<>>]
    ELSE [next |-> "raise", err |-> "RuntimeError", outputs |-> <<>>]

pick_image_url(outputs) ==
    LET first == IF outputs # <<>> THEN outputs[1] ELSE NoUrl
    IN  IF first.fileUrl # "" THEN first.fileUrl
        ELSE IF first.imageUrl # "" THEN first.imageUrl
        ELSE IF first.url # "" THEN first.url
        ELSE first.image_url

\* Mutant: the check that the secret is configured is missing.
require_token_NoConfigCheck(token, secret) ==
    IF token # secret THEN "Invalid token." ELSE ""

\* require_token: "" when the token is accepted, else the error raised.
require_token(token, secret) ==
    IF secret = "" THEN "ARCHIVE_TOKEN is not configured on server."
    ELSE IF token # secret THEN "Invalid token."
    ELSE ""

(***************************************************************************)
(* RetentionSweeper and the archive files.  A directory is a function from *)
(* file names to file contents.                                            *)
(***************************************************************************)
NoFiles == [n \in {} |-> <<>>]

\* path.write_bytes(bytes): creates the file or replaces its content.
WriteFile(dir, name, bytes) ==
    [n \in (DOMAIN dir) \cup {name} |-> IF n = name THEN bytes ELSE dir[n]]

RemoveFiles(dir, names) == [n \in (DOMAIN dir) \ names |-> dir[n]]

\* Mutant: a file stamped exactly at the cutoff is deleted too.
SweepDeletes_AtCutoff(name, cutoff) ==
    LET dt == strptime(FirstSegment(name))
    IN  dt.ok /\ dt.val <= cutoff

\* The test of the sweep on one file name: the leading segment parses as a
\* stamp and the stamp is before the cutoff.
SweepDeletes(name, cutoff) ==
    LET dt == strptime(FirstSegment(name))
    IN  dt.ok /\ dt.val < cutoff

\* cleanup_old_archives on one folder, at clock value t, with the configured
\* retention string: the folder as the sweep leaves it.
cleanup_old_archives(dir, t, retention) ==
    IF retention = <<>> THEN dir
    ELSE LET days == int(retention)
         IN  IF ~days.ok THEN dir
             ELSE IF days.val <= 0 THEN dir
             ELSE LET cutoff == t - days.val * SecsPerDay
                  IN  RemoveFiles(dir, {n \in DOMAIN dir : SweepDeletes(n, cutoff)})

\* json.dumps(record) + "\n": a line of the log that holds a JSON object.
\* A line of the log is kept by what it holds: text is "object" (a JSON
\* object), "array" (valid JSON that is not an object), "garbage" (not JSON)
\* or "blank"; for an object, ts tells whether its "ts" is a string ("str",
\* the string being value.ts), absent ("missing") or a number ("number"),
\* and value is the object.
json_dumps(rec) == [text |-> "object", ts |-> "str", value |-> rec]

\* json.loads(line): ok = FALSE stands for the JSONDecodeError.
json_loads(line) ==
    [ok |-> line.text \in {"object", "array"},
     value |-> [shape |-> line.text, ts |-> line.ts, value |-> line.value]]

\* The characters of the model in ASCII order, and str <= str of Python.
Ascii == <<"-", ".", "0", "1", "2", "3", "4", "5", "6", "7", "8", "9", "T", "_",
           "a", "b", "e", "g", "i", "k", "n", "o", "p", "s", "t", "u", "x">>

Rank(c) == CHOOSE i \in 1..Len(Ascii) : Ascii[i] = c

RECURSIVE StrLeq(_, _)
StrLeq(a, b) ==
    IF a = <<>> THEN TRUE
    ELSE IF b = <<>> THEN FALSE
    ELSE IF Head(a) = Head(b) THEN StrLeq(Tail(a), Tail(b))
    ELSE Rank(Head(a)) < Rank(Head(b))

\* rec.get("ts", "") <= since: err is the class of the exception raised
\* (a list has no get; a number does not compare with a string).
ts_leq_since(rec, since) ==
    IF rec.shape # "object" THEN [err |-> "AttributeError", leq |-> FALSE]
    ELSE IF rec.ts = "number" THEN [err |-> "TypeError", leq |-> FALSE]
    ELSE IF rec.ts = "missing" THEN [err |-> "", leq |-> TRUE]
    ELSE [err |-> "", leq |-> StrLeq(rec.value.ts, since)]

\* Mutant: the first limit items, items[:limit].
LastN_FirstN(items, limit) ==
    IF Len(items) <= limit THEN items ELSE SubSeq(items, 1, limit)

\* items[-limit:]
LastN(items, limit) ==
    IF Len(items) <= limit THEN items
    ELSE SubSeq(items, Len(items) - limit + 1, Len(items))

(***************************************************************************)
(* State.                                                                  *)
(***************************************************************************)
VARIABLES
    ARCHIVE_TOKEN,            \* configuration, fixed at start
    ARCHIVE_RETENTION_DAYS,   \* configuration, fixed at start
    now,                      \* the wall clock, in seconds
    dirs,                     \* TRUE when archives/input and archives/output exist
    inputDir,                 \* archives/input
    outputDir,                \* archives/output
    log,                      \* archives/archives.jsonl, a sequence of lines
    issued,                   \* the task ids the remote has handed out
    loop,                     \* the request running on the event loop, or ""
    g,                        \* the generation requests
    call                      \* the list or download call served by the last
                              \* step, with its response (NoCall otherwise)

vars == <<ARCHIVE_TOKEN, ARCHIVE_RETENTION_DAYS, now, dirs, inputDir, outputDir,
          log, issued, loop, g, call>>

config == <<ARCHIVE_TOKEN, ARCHIVE_RETENTION_DAYS>>

NoBody == [taskId |-> <<>>, archiveId |-> <<>>, token |-> "", error |-> "", type |-> ""]

\* No answer of the create endpoint yet.
NoAnswer == [kind |-> "none", code |-> 0,
             data |-> [shape |-> "null", taskId |-> {}, id |-> {}]]

\* A request before it arrives.  posted is the productOption of the request;
\* opt, input_bytes, mime, task_id, start, outputs, output_url, output_bytes
\* and ts are the locals of generate and poll_outputs; status and body are
\* the response.  The rest records what the request has done: creates and
\* gets count its calls of the create endpoint and of the output URL,
\* created is the answer of the create endpoint (kept until the first query
\* of the outputs endpoint), polled the answers of the outputs endpoint,
\* each as its code (-1 for a failed call) and its result list, elapsed the
\* time.time() - start at which the polling timed out, wrote the files
\* written and appended the number of lines appended to the log.
IdleReq ==
    [pc |-> "idle", posted |-> <<>>, opt |-> 0, input_bytes |-> <<>>, mime |-> "",
     task_id |-> <<>>, start |-> 0, outputs |-> <<>>, output_url |-> "",
     output_bytes |-> <<>>, ts |-> <<>>, creates |-> 0, created |-> NoAnswer,
     polled |-> <<>>, elapsed |-> 0, gets |-> 0, wrote |-> {}, appended |-> 0,
     status |-> 0, body |-> NoBody]

\* No call of the archive endpoints yet.  A call keeps its parameters, the
\* response (status, error, items or the streamed file's name and bytes) and
\* what it touched: "mkdir" (ensure_archive_dirs), "glob" (a folder scan),
\* "stat" and "read" (the index log).
NoCall ==
    [op |-> "none", token |-> "", since |-> {}, limit |-> 0, archive_id |-> <<>>,
     kind |-> "", status |-> 0, error |-> "", items |-> <<>>, name |-> <<>>,
     bytes |-> <<>>, effects |-> {}]

\* A file that the program did not write, present in the input folder.
ForeignFile == <<"k", "e", "e", "p">>

Init ==
    /\ ARCHIVE_TOKEN \in TokenConfigs
    /\ ARCHIVE_RETENTION_DAYS = <<"1">>
    /\ now = 0
    /\ dirs = FALSE
    /\ inputDir = NoFiles
    /\ outputDir = NoFiles
    /\ log = <<>>
    /\ issued = {}
    /\ loop = ""
    /\ g = [r \in Reqs |-> IdleReq]
    /\ call = NoCall

\* The time a query of the outputs endpoint can take.
Latencies == 0..MaxLatency

\* Requests arrive in the order of their names.
Arrived(r) == \A q \in Reqs : (q = "r1" /\ r = "r2") => g[q].pc # "idle"

\* The response of a request that ends: return JSONResponse(..., status_code).
\* The locals of the handler go with it; the calls it made stay on record.
Respond(r, gg, status, body) ==
    [gg EXCEPT ![r] = [IdleReq EXCEPT !.pc = "done", !.status = status, !.body = body,
                                     !.posted = gg[r].posted,
                                     !.input_bytes = gg[r].input_bytes,
                                     !.output_bytes = gg[r].output_bytes,
                                     !.creates = gg[r].creates,
                                     !.created = gg[r].created,
                                     !.polled = gg[r].polled,
                                     !.elapsed = gg[r].elapsed,
                                     !.gets = gg[r].gets, !.wrote = gg[r].wrote,
                                     !.appended = gg[r].appended]]

ErrorBody(message, type) == [NoBody EXCEPT !.error = message, !.type = type]

\* Mutant: the exception is reported as a client error.
Fail_AsClientError(r, gg, type) == Respond(r, gg, 400, ErrorBody("exception", type))

\* except Exception as e: return JSONResponse({"error", "type"}, 500)
Fail(r, gg, type) == Respond(r, gg, 500, ErrorBody("exception", type))

(***************************************************************************)
(* POST /api/generate.  The handler is a coroutine: it runs on the event   *)
(* loop, gives the loop up only at "await userImage.read()", and holds it  *)
(* through every blocking call that follows (requests.post, time.sleep,    *)
(* requests.get, the file writes) until it returns.                        *)
(***************************************************************************)
\* Mutant: the lower limit of productOption is 0.
ValidateOption_FromZero(p) ==
    LET opt == int(p)
    IN  IF ~opt.ok THEN "productOption must be a number (e.g. 1 or 2)."
        ELSE IF opt.val < 0 THEN "productOption must be >= 1."
        ELSE ""

\* The validation of productOption: the 400 message, or "" when it passes.
ValidateOption(p) ==
    LET opt == int(p)
    IN  IF ~opt.ok THEN "productOption must be a number (e.g. 1 or 2)."
        ELSE IF opt.val < 1 THEN "productOption must be >= 1."
        ELSE ""

\* ensure_archive_dirs(); cleanup_old_archives(); validate option.
GenStart(r) ==
    /\ g[r].pc = "idle"
    /\ Arrived(r)
    /\ loop = ""
    /\ now <= MaxTime
    /\ dirs' = TRUE
    /\ inputDir' = cleanup_old_archives(inputDir, now, ARCHIVE_RETENTION_DAYS)
    /\ outputDir' = cleanup_old_archives(outputDir, now, ARCHIVE_RETENTION_DAYS)
    /\ \E p \in OptionInputs :
         LET gg == [g EXCEPT ![r].posted = p]
         IN  g' = IF ValidateOption(p) # ""
                  THEN Respond(r, gg, 400, ErrorBody(ValidateOption(p), ""))
                  ELSE [gg EXCEPT ![r].pc = "read", ![r].opt = int(p).val]
    /\ call' = NoCall
    /\ UNCHANGED <<config, now, log, issued, loop>>

\* input_bytes = await userImage.read(); reject an empty upload.
GenRead(r) ==
    /\ g[r].pc = "read"
    /\ loop = ""
    /\ \E b \in Uploads, m \in Mimes :
         IF b = <<>>
         THEN /\ g' = Respond(r, g, 400, ErrorBody("Empty upload.", ""))
              /\ loop' = loop
         ELSE /\ g' = [g EXCEPT ![r].pc = "create", ![r].input_bytes = b,
                                ![r].mime = m]
              /\ loop' = r
    /\ call' = NoCall
    /\ UNCHANGED <<config, now, dirs, inputDir, outputDir, log, issued>>

\* task_id = create_task(node_info_list): one POST to the create endpoint.
GenCreate(r) ==
    /\ g[r].pc = "create"
    /\ \E tid \in TaskIds \ issued :
       \E resp \in CreateResponses(tid) :
         LET res == create_task(resp)
             gg == [g EXCEPT ![r].creates = @ + 1, ![r].created = resp]
         IN  /\ IF res.err # ""
                THEN /\ g' = Fail(r, gg, res.err)
                     /\ loop' = ""
                     /\ issued' = issued
                ELSE /\ g' = [gg EXCEPT ![r].pc = "poll",
                                        ![r].task_id = res.task_id,
                                        ![r].start = now]
                     /\ loop' = loop
                     /\ issued' = issued \cup {res.task_id}
    /\ call' = NoCall
    /\ UNCHANGED <<config, now, dirs, inputDir, outputDir, log>>

\* One pass of the loop of poll_outputs whose test holds: one POST to the
\* outputs endpoint and the discrimination of its answer.
PollQuery(r) ==
    /\ g[r].pc = "poll"
    /\ PollDeadlineOpen(now, g[r].start)
    /\ \E resp \in OutputsResponses, d \in Latencies :
         LET step == poll_step(resp)
             gg == [g EXCEPT ![r].created = NoAnswer,
                             ![r].polled =
                                Append(@, [code |-> IF resp.kind = "fail" THEN -1
                                                    ELSE resp.code,
                                           items |-> resp.data.items])]
         IN  /\ now' = now + d
             /\ CASE step.next = "return" ->
                       /\ g' = [gg EXCEPT ![r].pc = "fetch",
                                          ![r].outputs = step.outputs]
                       /\ loop' = loop
                  [] step.next = "sleep" ->
                       /\ g' = [gg EXCEPT ![r].pc = "sleep"]
                       /\ loop' = loop
                  [] OTHER ->
                       /\ g' = Fail(r, gg, step.err)
                       /\ loop' = ""
    /\ call' = NoCall
    /\ UNCHANGED <<config, dirs, inputDir, outputDir, log, issued>>

\* time.sleep(interval_sec); continue
PollSleep(r) ==
    /\ g[r].pc = "sleep"
    /\ now' = now + interval_sec
    /\ g' = [g EXCEPT ![r].pc = "poll"]
    /\ call' = NoCall
    /\ UNCHANGED <<config, dirs, inputDir, outputDir, log, issued, loop>>

\* The loop test fails: raise TimeoutError("RunningHub timeout").
PollTimeout(r) ==
    /\ g[r].pc = "poll"
    /\ ~PollDeadlineOpen(now, g[r].start)
    /\ g' = Fail(r, [g EXCEPT ![r].elapsed = now - g[r].start], "TimeoutError")
    /\ loop' = ""
    /\ call' = NoCall
    /\ UNCHANGED <<config, now, dirs, inputDir, outputDir, log, issued>>

\* Mutant: out_resp.raise_for_status() is left out, so a failed GET goes on
\* to the archival with an empty content.
GenFetch_NoStatusCheck(r) ==
    /\ g[r].pc = "fetch"
    /\ LET url == pick_image_url(g[r].outputs)
       IN  IF url = ""
           THEN /\ g' = Fail(r, g, "RuntimeError")
                /\ loop' = ""
           ELSE \E ok \in BOOLEAN, bytes \in OutputBlobs :
                  /\ g' = [g EXCEPT ![r].gets = @ + 1, ![r].output_url = url,
                                    ![r].pc = "write_in",
                                    ![r].output_bytes = IF ok THEN bytes ELSE <<>>,
                                    ![r].ts = utc_stamp(now)]
                  /\ loop' = loop
    /\ call' = NoCall
    /\ UNCHANGED <<config, now, dirs, inputDir, outputDir, log, issued>>

\* output_url = pick_image_url(outputs); requests.get(output_url); ts = utc_stamp()
GenFetch(r) ==
    /\ g[r].pc = "fetch"
    /\ LET url == pick_image_url(g[r].outputs)
       IN  IF url = ""
           THEN /\ g' = Fail(r, g, "RuntimeError")
                /\ loop' = ""
           ELSE \E ok \in BOOLEAN, bytes \in OutputBlobs :
                  LET gg == [g EXCEPT ![r].gets = @ + 1, ![r].output_url = url]
                  IN  /\ IF ok
                         THEN /\ g' = [gg EXCEPT ![r].pc = "write_in",
                                                 ![r].output_bytes = bytes,
                                                 ![r].ts = utc_stamp(now)]
                              /\ loop' = loop
                         ELSE /\ g' = Fail(r, gg, "HTTPError")
                              /\ loop' = ""
    /\ call' = NoCall
    /\ UNCHANGED <<config, now, dirs, inputDir, outputDir, log, issued>>

\* input_path.write_bytes(input_bytes); the write can fail (OSError).
GenWriteInput(r) ==
    /\ g[r].pc = "write_in"
    /\ LET name == InputFilename(g[r].ts, g[r].opt, g[r].task_id, g[r].mime)
       IN  \E ok \in BOOLEAN :
             IF ok
             THEN /\ inputDir' = WriteFile(inputDir, name, g[r].input_bytes)
                  /\ g' = [g EXCEPT ![r].pc = "write_out",
                              ![r].wrote = @ \cup {[dir |-> "input", name |-> name,
                                                    bytes |-> g[r].input_bytes]}]
                  /\ loop' = loop
             ELSE /\ inputDir' = inputDir
                  /\ g' = Fail(r, g, "OSError")
                  /\ loop' = ""
    /\ call' = NoCall
    /\ UNCHANGED <<config, now, dirs, outputDir, log, issued>>

\* output_path.write_bytes(output_bytes); the write can fail (OSError).
GenWriteOutput(r) ==
    /\ g[r].pc = "write_out"
    /\ LET name == OutputFilename(g[r].ts, g[r].opt, g[r].task_id)
       IN  \E ok \in BOOLEAN :
             IF ok
             THEN /\ outputDir' = WriteFile(outputDir, name, g[r].output_bytes)
                  /\ g' = [g EXCEPT ![r].pc = "append",
                              ![r].wrote = @ \cup {[dir |-> "output", name |-> name,
                                                    bytes |-> g[r].output_bytes]}]
                  /\ loop' = loop
             ELSE /\ outputDir' = outputDir
                  /\ g' = Fail(r, g, "OSError")
                  /\ loop' = ""
    /\ call' = NoCall
    /\ UNCHANGED <<config, now, dirs, inputDir, log, issued>>

\* Mutant: the two sizes are taken from the wrong blobs.
ArchiveRecord_SizesSwapped(q) ==
    [id |-> ArchiveId(q.ts, q.opt, q.task_id),
     ts |-> q.ts,
     taskId |-> q.task_id,
     productOption |-> q.opt,
     input |-> [filename |-> InputFilename(q.ts, q.opt, q.task_id, q.mime),
                mime |-> q.mime, size |-> Len(q.output_bytes)],
     output |-> [filename |-> OutputFilename(q.ts, q.opt, q.task_id),
                 mime |-> "image/png", size |-> Len(q.input_bytes),
                 runninghubUrl |-> q.output_url]]

\* The record written to the index log.
ArchiveRecord(q) ==
    [id |-> ArchiveId(q.ts, q.opt, q.task_id),
     ts |-> q.ts,
     taskId |-> q.task_id,
     productOption |-> q.opt,
     input |-> [filename |-> InputFilename(q.ts, q.opt, q.task_id, q.mime),
                mime |-> q.mime, size |-> Len(q.input_bytes)],
     output |-> [filename |-> OutputFilename(q.ts, q.opt, q.task_id),
                 mime |-> "image/png", size |-> Len(q.output_bytes),
                 runninghubUrl |-> q.output_url]]

\* The body of the success response; the two download URLs are
\* /api/archive/download/{archive_id}?token={ARCHIVE_TOKEN}&kind=...
SuccessBody(q, secret) ==
    [NoBody EXCEPT !.taskId = q.task_id,
                   !.archiveId = ArchiveId(q.ts, q.opt, q.task_id),
                   !.token = secret]

\* Mutant: the log is opened with "w", which truncates it.
AppendLine_Truncating(lines, rec) == <<json_dumps(rec)>>

\* with ARCHIVE_LOG.open("a") as f: f.write(json.dumps(record) + "\n")
AppendLine(lines, rec) == Append(lines, json_dumps(rec))

\* Append the record to the log and return; the append can fail (OSError).
GenAppend(r) ==
    /\ g[r].pc = "append"
    /\ \E ok \in BOOLEAN :
         IF ok
         THEN /\ log' = AppendLine(log, ArchiveRecord(g[r]))
              /\ g' = Respond(r, [g EXCEPT ![r].appended = @ + 1], 200,
                               SuccessBody(g[r], ARCHIVE_TOKEN))
         ELSE /\ log' = log
              /\ g' = Fail(r, g, "OSError")
    /\ loop' = ""
    /\ call' = NoCall
    /\ UNCHANGED <<config, now, dirs, inputDir, outputDir, issued>>

\* Time passes while no handler is running.  (The time a handler takes is
\* the time of its queries of the outputs endpoint and of its sleeps.)
Tick ==
    /\ loop = ""
    /\ now < MaxTime
    /\ now' = now + 1
    /\ call' = NoCall
    /\ UNCHANGED <<config, dirs, inputDir, outputDir, log, issued, loop, g>>

(***************************************************************************)
(* GET /api/archive/list and GET /api/archive/download/{archive_id}.  The  *)
(* event loop accepts the request and sends the response, so a call is     *)
(* served while no coroutine holds the loop.                               *)
(***************************************************************************)
\* The loop of archive_list over the lines that are left, items being what
\* it has kept so far: err is the class of the exception that ends it.
RECURSIVE ListLoop(_, _, _)
ListLoop(lines, since, items) ==
    IF lines = <<>> THEN [err |-> "", items |-> items]
    ELSE IF Head(lines).text = "blank" THEN ListLoop(Tail(lines), since, items)
    ELSE LET rec == json_loads(Head(lines))
         IN  IF ~rec.ok THEN ListLoop(Tail(lines), since, items)
             ELSE IF ~Truthy(since)
                  THEN ListLoop(Tail(lines), since, Append(items, rec.value))
             ELSE LET cmp == ts_leq_since(rec.value, TheOne(since))
                  IN  IF cmp.err # "" THEN [err |-> cmp.err, items |-> <<>>]
                      ELSE IF cmp.leq THEN ListLoop(Tail(lines), since, items)
                      ELSE ListLoop(Tail(lines), since, Append(items, rec.value))

\* The values that archive_list keeps, in file order; since is optional.
ListItems(lines, since) == ListLoop(lines, since, <<>>)

\* archive_list: the call with its response.
archive_list(token, since, limit, secret, lines) ==
    LET c == [NoCall EXCEPT !.op = "list", !.token = token, !.since = since,
                            !.limit = limit]
        denied == require_token(token, secret)
    IN  IF denied # "" THEN [c EXCEPT !.status = 401, !.error = denied]
        ELSE IF lines = <<>>
             \* the log does not exist yet
             THEN [c EXCEPT !.status = 200, !.effects = {"stat"}]
        ELSE LET kept == ListItems(lines, since)
             IN  IF kept.err # ""
                 \* the exception leaves the handler: 500 Internal Server Error
                 THEN [c EXCEPT !.status = 500, !.error = kept.err,
                                !.effects = {"stat", "read"}]
                 ELSE [c EXCEPT !.status = 200, !.effects = {"stat", "read"},
                                !.items = LastN(kept.items, limit)]

\* archive_download: the calls with their responses that are possible (the
\* order of folder.glob, and so matches[0], is the file system's).
archive_download(archive_id, token, kind, secret, indir, outdir) ==
    LET c == [NoCall EXCEPT !.op = "download", !.token = token,
                            !.archive_id = archive_id, !.kind = kind]
        denied == require_token(token, secret)
        folder == IF kind = "input" THEN indir ELSE outdir
        matches == GlobPrefix(folder, archive_id)
    IN  IF denied # "" THEN {[c EXCEPT !.status = 401, !.error = denied]}
        ELSE IF kind \notin {"input", "output"}
             THEN {[c EXCEPT !.status = 400, !.error = "kind must be input or output",
                             !.effects = {"mkdir"}]}
        ELSE IF matches = {}
             THEN {[c EXCEPT !.status = 404, !.error = "File not found",
                             !.effects = {"mkdir", "glob"}]}
        ELSE {[c EXCEPT !.status = 200, !.name = n, !.bytes = folder[n],
                        !.effects = {"mkdir", "glob"}] : n \in matches}

ArchiveList(token, since, limit) ==
    /\ loop = ""
    /\ call' = archive_list(token, since, limit, ARCHIVE_TOKEN, log)
    /\ UNCHANGED <<config, now, dirs, inputDir, outputDir, log, issued, loop, g>>

ArchiveDownload(archive_id, token, kind) ==
    /\ loop = ""
    /\ call' \in archive_download(archive_id, token, kind, ARCHIVE_TOKEN,
                                  inputDir, outputDir)
    /\ dirs' = (dirs \/ "mkdir" \in call'.effects)
    /\ UNCHANGED <<config, now, inputDir, outputDir, log, issued, loop, g>>

\* The inputs of the calls.
Tokens == {"", "s3cret", "guess"}
Kinds == {"input", "output", "thumb"}
RecordedIds == {log[i].value.id : i \in 1..Len(log)}
MissingId == <<"0", "0", "_", "n", "o", "n", "e">>
\* A path parameter that is a pattern of glob.
StarId == <<"*">>

Next ==
    \/ \E r \in Reqs : GenStart(r)
    \/ \E r \in Reqs : GenRead(r)
    \/ \E r \in Reqs : GenCreate(r)
    \/ \E r \in Reqs : PollQuery(r)
    \/ \E r \in Reqs : PollSleep(r)
    \/ \E r \in Reqs : PollTimeout(r)
    \/ \E r \in Reqs : GenFetch(r)
    \/ \E r \in Reqs : GenWriteInput(r)
    \/ \E r \in Reqs : GenWriteOutput(r)
    \/ \E r \in Reqs : GenAppend(r)
    \/ Tick
    \/ \E token \in {"s3cret", "guess"} : ArchiveList(token, {}, 1)
    \/ \E token \in {"s3cret", "guess"}, id \in RecordedIds :
         ArchiveDownload(id, token, "output")

Spec == Init /\ [][Next]_vars

(***************************************************************************)
(* FairSpec: one generation request, with the fairness that the control    *)
(* flow of a running handler gives: its blocking calls return (requests    *)
(* carry a timeout, time.sleep ends) and the next statement runs.          *)
(***************************************************************************)
AbsentReq == [IdleReq EXCEPT !.pc = "absent"]

FairInit ==
    /\ ARCHIVE_TOKEN \in TokenConfigs
    /\ ARCHIVE_RETENTION_DAYS = <<"1">>
    /\ now = 0
    /\ dirs = FALSE
    /\ inputDir = NoFiles
    /\ outputDir = NoFiles
    /\ log = <<>>
    /\ issued = {}
    /\ loop = ""
    /\ g = [r \in Reqs |-> IF r = "r1" THEN IdleReq ELSE AbsentReq]
    /\ call = NoCall

Fairness ==
    \A r \in Reqs : WF_vars(PollQuery(r) \/ PollSleep(r) \/ PollTimeout(r))

FairSpec == FairInit /\ [][Next]_vars /\ Fairness

(***************************************************************************)
(* ArchSpec: the archive endpoints and the sweep over an archive that up   *)
(* to MaxPrior earlier successful runs have left, under every              *)
(* configuration.  One request arrives and gets as far as the upload.      *)
(***************************************************************************)
\* The locals of the i-th earlier run at the time it archived.  Runs 1 and
\* 2 fall in the same second, with task ids "T1" and "T1_x".
PriorRun(i) ==
    [IdleReq EXCEPT !.ts = utc_stamp((i - 1) \div 2),
                    !.opt = 1,
                    !.task_id = IF i = 2 THEN <<"T", "1", "_", "x">>
                                ELSE <<"T">> \o DecStr(i),
                    !.mime = "image/png",
                    !.input_bytes = <<7, 8>>,
                    !.output_bytes = <<1, 2, 3>>,
                    !.output_url = "http://x/img.png"]

RECURSIVE PriorInputs(_)
PriorInputs(k) ==
    IF k = 0 THEN WriteFile(NoFiles, ForeignFile, <<>>)
    ELSE WriteFile(PriorInputs(k - 1),
                   InputFilename(PriorRun(k).ts, PriorRun(k).opt,
                                 PriorRun(k).task_id, PriorRun(k).mime),
                   PriorRun(k).input_bytes)

RECURSIVE PriorOutputs(_)
PriorOutputs(k) ==
    IF k = 0 THEN NoFiles
    ELSE WriteFile(PriorOutputs(k - 1),
                   OutputFilename(PriorRun(k).ts, PriorRun(k).opt, PriorRun(k).task_id),
                   PriorRun(k).output_bytes)

ArchInit ==
    /\ ARCHIVE_TOKEN \in TokenConfigs
    /\ ARCHIVE_RETENTION_DAYS \in RetentionConfigs
    /\ \E k \in 0..MaxPrior :
         /\ now = (IF k = 0 THEN 0 ELSE (k - 1) \div 2)
         /\ dirs = (k > 0)
         /\ inputDir = (IF k = 0 THEN NoFiles ELSE PriorInputs(k))
         /\ outputDir = PriorOutputs(k)
         /\ log = [i \in 1..k |-> json_dumps(ArchiveRecord(PriorRun(i)))]
         /\ issued = {PriorRun(i).task_id : i \in 1..k}
    /\ loop = ""
    /\ g = [r \in Reqs |-> IdleReq]
    /\ call = NoCall

\* The values of since that are passed: none, and stamps.
Sinces == {{}, {utc_stamp(0)}, {utc_stamp(1)}}

ArchNext ==
    \/ GenStart("r1")
    \/ Tick
    \/ \E token \in Tokens, since \in Sinces, limit \in 1..MaxLimit :
         ArchiveList(token, since, limit)
    \/ \E token \in Tokens, id \in RecordedIds \cup {MissingId, StarId}, kind \in Kinds :
         ArchiveDownload(id, token, kind)

ArchSpec == ArchInit /\ [][ArchNext]_vars

(***************************************************************************)
(* ListSpec: archive_list over every log of up to MaxLines lines, each a   *)
(* record of the program or a line of another origin (a blank line, a line *)
(* that is not JSON, a JSON array, an object without "ts", with a numeric  *)
(* "ts", with an empty "ts").                                              *)
(***************************************************************************)
NoRecord == ArchiveRecord(IdleReq)

OwnLines == {json_dumps(ArchiveRecord(PriorRun(i))) : i \in {1, 3}}

ForeignLines ==
    {[text |-> "blank", ts |-> "missing", value |-> NoRecord],
     [text |-> "garbage", ts |-> "missing", value |-> NoRecord],
     [text |-> "array", ts |-> "missing", value |-> NoRecord],
     [text |-> "object", ts |-> "missing", value |-> NoRecord],
     [text |-> "object", ts |-> "number", value |-> NoRecord],
     [text |-> "object", ts |-> "str", value |-> NoRecord]}

LogLines == OwnLines \cup ForeignLines

ListInit ==
    /\ ARCHIVE_TOKEN = "s3cret"
    /\ ARCHIVE_RETENTION_DAYS = <<>>
    /\ now = 1
    /\ dirs = TRUE
    /\ inputDir = NoFiles
    /\ outputDir = NoFiles
    /\ log \in UNION {[1..n -> LogLines] : n \in 0..MaxLines}
    /\ issued = {}
    /\ loop = ""
    /\ g = [r \in Reqs |-> IdleReq]
    /\ call = NoCall

\* The values of since that are passed: none, the empty string, and stamps.
ListSinces == Sinces \cup {{<<>>}}

ListNext ==
    \E token \in {"s3cret", "guess"}, since \in ListSinces, limit \in 1..MaxLimit :
        ArchiveList(token, since, limit)

ListSpec == ListInit /\ [][ListNext]_vars

(***************************************************************************)
(* Properties.                                                             *)
(***************************************************************************)
Last(seq) == seq[Len(seq)]

\* The request has been answered with the exception class type.
Raised(r, type) == g[r].pc = "done" /\ g[r].status = 500 /\ g[r].body.type = type

\* Every answer of the outputs endpoint before the last was code 804.
Only804Before(r) ==
    \A i \in 1..(Len(g[r].polled) - 1) : g[r].polled[i].code = 804

All804(r) ==
    g[r].polled # <<>> /\ \A i \in 1..Len(g[r].polled) : g[r].polled[i].code = 804

\* poll_outputs has just returned to generate.
PollReturned(r) == g[r].pc = "fetch"

\* What poll_outputs returns equals the list of the last answer, that answer
\* has code 0 and is not empty, every answer before it was 804, and so the
\* number of queries is the number of 804 answers plus one.
ReturnsTheList(r) ==
    PollReturned(r) =>
        /\ g[r].polled # <<>>
        /\ Last(g[r].polled).code = 0
        /\ Last(g[r].polled).items # <<>>
        /\ g[r].outputs = Last(g[r].polled).items
        /\ Only804Before(r)
        /\ Cardinality({i \in 1..Len(g[r].polled) : g[r].polled[i].code = 804})
              = Len(g[r].polled) - 1

\* C1 (as stated): against a remote that answers 804 to the first N queries
\* and then a non-empty list, poll_outputs returns that list after exactly
\* N+1 queries, for every N whose N sleeps fit inside the timeout: so it
\* never gives up after N answers of 804 while N * interval_sec is still
\* below timeout_sec.
C1_AsStated ==
    \A r \in Reqs :
        /\ ReturnsTheList(r)
        /\ (Raised(r, "TimeoutError") /\ All804(r))
              => Len(g[r].polled) * interval_sec >= timeout_sec

\* C1 (amended): the same, for every N such that the time elapsed since the
\* start of polling, the time of the queries included, is still below
\* timeout_sec after the N-th sleep: poll_outputs gives up only when the
\* elapsed time has reached timeout_sec.
C1_ReturnsAfterNPlusOne ==
    \A r \in Reqs :
        /\ ReturnsTheList(r)
        /\ (Raised(r, "TimeoutError") /\ All804(r)) => g[r].elapsed >= timeout_sec

\* A poll that returned a list after two answers of 804.
C1_Witness ==
    \E r \in Reqs : PollReturned(r) /\ Len(g[r].polled) = 3

\* C2: against a remote that answers 804 to every query, poll_outputs
\* terminates, it ends in TimeoutError (not in the RuntimeError of a protocol
\* error), only once time.time() - start has reached timeout_sec, and start
\* is not moved while the polling lasts.
C2_TimeoutInvariant ==
    \A r \in Reqs :
        (g[r].pc = "done" /\ All804(r))
            => /\ Raised(r, "TimeoutError")
               /\ g[r].body.type # "RuntimeError"
               /\ g[r].elapsed >= timeout_sec

C2_DeadlineFixed ==
    \A r \in Reqs :
        (g[r].pc \in {"poll", "sleep"} /\ g'[r].pc \in {"poll", "sleep"})
            => g'[r].start = g[r].start

C2_NotEarlier ==
    \A r \in Reqs :
        (g[r].pc = "poll" /\ g'[r].pc = "done" /\ g'[r].body.type = "TimeoutError")
            => now - g[r].start >= timeout_sec

C2_PollTerminates ==
    /\ []C2_TimeoutInvariant
    /\ [][C2_DeadlineFixed /\ C2_NotEarlier]_vars
    /\ \A r \in Reqs : (g[r].pc \in {"poll", "sleep"}) ~> (g[r].pc \notin {"poll", "sleep"})

\* A poll that timed out after answers of 804 only.
C2_Witness ==
    \E r \in Reqs : Raised(r, "TimeoutError") /\ All804(r) /\ Len(g[r].polled) >= 2

\* The last answer of the outputs endpoint is one that ends the polling with
\* a protocol error: code 0 with an empty result, or a code other than 0 and
\* 804.
ProtocolAnswer(a) ==
    \/ a.code = 0 /\ a.items = <<>>
    \/ a.code \notin {0, 804, -1}

\* C3: after an answer with code 0 and an empty result, or with a code other
\* than 0 and 804, no further query is sent, the request ends with the
\* protocol error (RuntimeError) and never with the timeout error.
C3_ProtocolErrorEndsPolling ==
    \A r \in Reqs :
        /\ Only804Before(r)
        /\ (g[r].polled # <<>> /\ ProtocolAnswer(Last(g[r].polled)))
              => /\ Raised(r, "RuntimeError")
                 /\ g[r].gets = 0

\* Both kinds of protocol answer have ended a poll, one after an 804.
C3_Witness ==
    /\ g["r1"].pc = "done" /\ Len(g["r1"].polled) = 2
    /\ Last(g["r1"].polled).code = 0 /\ Last(g["r1"].polled).items = <<>>
    /\ g["r2"].pc = "done" /\ g["r2"].polled # <<>>
    /\ Last(g["r2"].polled).code = 500

\* The create endpoint answered, and the answer is not a success that
\* carries a task id: its code is not 0, or its data has neither a taskId
\* nor an id.
CreateRefused(a) ==
    a.kind = "json" /\ (a.code # 0 \/ (~Truthy(a.data.taskId) /\ ~Truthy(a.data.id)))

\* C4: create_task sends one request and never retries; it fails with the
\* protocol error (RuntimeError) whenever the code is not 0 and whenever the
\* code is 0 but the data carries neither a taskId nor an id; it returns a
\* task id only when the code is 0 and one of the two is present.
C4_CreateContract ==
    \A r \in Reqs :
        /\ g[r].creates <= 1
        /\ CreateRefused(g[r].created) => Raised(r, "RuntimeError")
        /\ (g[r].pc = "poll" /\ g[r].polled = <<>>)
              => /\ g[r].creates = 1
                 /\ g[r].created.kind = "json"
                 /\ g[r].created.code = 0
                 /\ g[r].task_id \in (g[r].created.data.taskId \cup g[r].created.data.id)
                 /\ g[r].task_id # <<>>

\* The request was rejected for its input: productOption does not parse as
\* an integer >= 1, or the upload read was empty.
BadOption(p) == ~int(p).ok \/ int(p).val < 1

RejectedInput(r) ==
    /\ g[r].pc \notin {"idle", "read"}
    /\ BadOption(g[r].posted) \/ g[r].input_bytes = <<>>

NoSideEffects(r) ==
    /\ g[r].creates = 0
    /\ g[r].polled = <<>>
    /\ g[r].gets = 0
    /\ g[r].wrote = {}
    /\ g[r].appended = 0

\* C5: a request whose productOption does not parse as an integer >= 1, or
\* whose upload is empty, is answered 400, and in its handling no remote
\* call is made, no blob is written and no record is appended.
C5_BadInputRejected ==
    \A r \in Reqs :
        /\ RejectedInput(r) => (g[r].pc = "done" /\ g[r].status = 400 /\ NoSideEffects(r))
        /\ g[r].status = 400 => (RejectedInput(r) /\ NoSideEffects(r))

\* One request rejected for its option and one for its empty upload.
C5_Witness ==
    /\ g["r1"].status = 400 /\ g["r1"].posted = <<"0">>
    /\ g["r2"].status = 400 /\ g["r2"].posted = <<"1">> /\ g["r2"].input_bytes = <<>>

\* The lines of the log whose record has the archive id.
LinesOf(id) == {i \in 1..Len(log) : log[i].value.id = id}

Succeeded(r) == g[r].pc = "done" /\ g[r].status = 200

\* What a request that succeeded has on record: one input blob with the
\* uploaded bytes, one output blob with the downloaded bytes, one line
\* appended, and the record of that line carries the archive id and the
\* task id of the response and the sizes and names of the two blobs.
ArchivedOnce(r) ==
    /\ g[r].appended = 1
    /\ Cardinality(g[r].wrote) = 2
    /\ Cardinality(LinesOf(g[r].body.archiveId)) = 1
    /\ \E wi, wo \in g[r].wrote :
         /\ wi.dir = "input" /\ wi.bytes = g[r].input_bytes
         /\ wo.dir = "output" /\ wo.bytes = g[r].output_bytes
         /\ \A i \in LinesOf(g[r].body.archiveId) :
              /\ log[i].value.taskId = g[r].body.taskId
              /\ log[i].value.input.filename = wi.name
              /\ log[i].value.input.size = Len(wi.bytes)
              /\ log[i].value.output.filename = wo.name
              /\ log[i].value.output.size = Len(wo.bytes)

C6_Recorded ==
    /\ \A r \in Reqs : IF Succeeded(r) THEN ArchivedOnce(r) ELSE g[r].appended = 0
    /\ Len(log) = Cardinality({r \in Reqs : Succeeded(r)})

\* At the step in which a request returns success the two blobs are in the
\* folders with the bytes of the request, and the log is one line longer.
C6_AtReturn ==
    \A r \in Reqs :
        (g[r].pc # "done" /\ g'[r].pc = "done" /\ g'[r].status = 200)
            => /\ Len(log') = Len(log) + 1
               /\ \E wi, wo \in g'[r].wrote :
                    /\ wi.dir = "input" /\ wi.name \in DOMAIN inputDir'
                    /\ inputDir'[wi.name] = g'[r].input_bytes
                    /\ wo.dir = "output" /\ wo.name \in DOMAIN outputDir'
                    /\ outputDir'[wo.name] = g'[r].output_bytes

\* C6: a request that returns success has written exactly one input blob
\* with the uploaded bytes and one output blob with the downloaded bytes and
\* appended exactly one record, which carries the archive id and task id of
\* the response and the sizes of the blobs; no record is appended for a
\* request that does not return success.
C6_SuccessArchivesOnce == []C6_Recorded /\ [][C6_AtReturn]_vars

\* Two requests have succeeded.
C6_Witness == Succeeded("r1") /\ Succeeded("r2") /\ Len(log) = 2

\* The names in a folder that start with id followed by an underscore.
WithPrefix(dir, id) == {n \in DOMAIN dir : IsPrefix(id \o <<"_">>, n)}

\* C7: every archive id recorded in the log is unique and, while the sweep
\* has not deleted its blobs, it is the prefix "<id>_" of exactly one file
\* name in the input folder and of exactly one in the output folder.
C7_IdOwnsItsBlobs ==
    /\ \A i, j \in 1..Len(log) : log[i].value.id = log[j].value.id => i = j
    /\ \A i \in 1..Len(log) :
         /\ log[i].value.input.filename \in DOMAIN inputDir
               => Cardinality(WithPrefix(inputDir, log[i].value.id)) = 1
         /\ log[i].value.output.filename \in DOMAIN outputDir
               => Cardinality(WithPrefix(outputDir, log[i].value.id)) = 1

\* C8: the log is append-only under every operation: in every step of a
\* generation request (its sweep included), of a list call and of a
\* download call, the log before is a prefix of the log after.
C8_Step == IsPrefix(log, log')

C8_LogAppendOnly == [][C8_Step]_vars

\* A sweep has deleted both blobs of a record that is still in the log, and
\* a later request has appended after it.
C8_Witness ==
    /\ Len(log) = 2
    /\ log[1].value.input.filename \notin DOMAIN inputDir
    /\ log[1].value.output.filename \notin DOMAIN outputDir

\* The retention window in days: N when ARCHIVE_RETENTION_DAYS is the
\* decimal numeral of an N >= 1, and 0 when it is unset, not an integer, or
\* an integer <= 0.
RetentionDays ==
    IF \E n \in 1..9 : ARCHIVE_RETENTION_DAYS = DecStr(n)
    THEN CHOOSE n \in 1..9 : ARCHIVE_RETENTION_DAYS = DecStr(n)
    ELSE 0

\* The time that the leading segment of a file name stamps, or -1 when the
\* leading segment is not a stamp.
StampTime(name) ==
    IF \E t \in 0..99 : name = utc_stamp(t) \/ IsPrefix(utc_stamp(t) \o <<"_">>, name)
    THEN CHOOSE t \in 0..99 : name = utc_stamp(t) \/ IsPrefix(utc_stamp(t) \o <<"_">>, name)
    ELSE -1

\* The file is one that a sweep at clock value t has to delete.
Expired(name, t) ==
    /\ RetentionDays >= 1
    /\ StampTime(name) >= 0
    /\ StampTime(name) < t - RetentionDays * SecsPerDay

\* The sweep took the folder from before to after: exactly the expired files
\* are gone, and the others are as they were.
SweptExactly(before, after, t) ==
    /\ DOMAIN after = {n \in DOMAIN before : ~Expired(n, t)}
    /\ \A n \in DOMAIN after : after[n] = before[n]

\* C9: the sweep that a generation request runs on arrival deletes nothing
\* when the retention window is unset, not an integer or <= 0; with a
\* window of N >= 1 days it deletes every file of both folders whose leading
\* stamp is earlier than now minus N days and keeps every file stamped at or
\* after that cutoff and every file whose leading segment is not a stamp.
C9_Step ==
    (\E r \in Reqs : g[r].pc = "idle" /\ g'[r].pc # "idle")
        => /\ SweptExactly(inputDir, inputDir', now)
           /\ SweptExactly(outputDir, outputDir', now)

Unauthorized(c) ==
    /\ c.op \in {"list", "download"}
    /\ ARCHIVE_TOKEN = "" \/ c.token # ARCHIVE_TOKEN

C10_Refused ==
    Unauthorized(call)
        => /\ call.status = 401
           /\ call.effects = {}
           /\ call.items = <<>>
           /\ call.name = <<>>
           /\ call.bytes = <<>>

C10_NothingTouched ==
    Unauthorized(call')
        => /\ dirs' = dirs
           /\ inputDir' = inputDir
           /\ outputDir' = outputDir
           /\ log' = log

\* C10: list and download answer 401 whenever the secret is unconfigured,
\* for every token including the empty one, and whenever the token differs
\* from the secret; then no archive folder is created or scanned, the log is
\* not read, and no record and no blob byte is returned.
C10_FailClosed == []C10_Refused /\ [][C10_NothingTouched]_vars

\* A download with the empty token, refused by a server without a secret,
\* whose archive folders still do not exist.
C10_Witness ==
    /\ ARCHIVE_TOKEN = ""
    /\ call.op = "download" /\ call.token = "" /\ call.status = 401
    /\ dirs = FALSE

\* The call presented the configured secret.
Authorized(c) == ARCHIVE_TOKEN # "" /\ c.token = ARCHIVE_TOKEN

\* The folder of a kind of blob.
FolderOf(kind) == IF kind = "input" THEN inputDir ELSE outputDir

\* C11: with a correct token a download answers 400 for every kind other
\* than input and output, without a scan; 404 when the folder of the kind
\* holds no file whose name starts with the archive id and "_"; and
\* otherwise it streams a file of that folder, name and bytes.
C11_DownloadContract ==
    (call.op = "download" /\ Authorized(call))
        => IF call.kind \notin {"input", "output"}
           THEN call.status = 400 /\ "glob" \notin call.effects /\ call.bytes = <<>>
           ELSE IF WithPrefix(FolderOf(call.kind), call.archive_id) = {}
                THEN call.status = 404 /\ call.bytes = <<>>
           ELSE /\ call.status = 200
                /\ call.name \in DOMAIN FolderOf(call.kind)
                /\ call.bytes = FolderOf(call.kind)[call.name]

\* The value that the list returned is a record with a timestamp.
HasStamp(item) == item.shape = "object" /\ item.ts = "str"

\* C12: whatever the log holds and whatever is passed as since, the list
\* returns no record whose timestamp is lexicographically <= since.
C12_SinceExcludes ==
    (call.op = "list" /\ call.since # {})
        => \A i \in 1..Len(call.items) :
             HasStamp(call.items[i])
                 => ~StrLeq(call.items[i].value.ts, TheOne(call.since))

\* The record of a line written by the program passes the filter: no since
\* is given, or it is empty, or the record is stamped later than since.
PassesSince(line, since) ==
    \/ since = {}
    \/ TheOne(since) = <<>>
    \/ StampTime(line.value.ts) > StampTime(TheOne(since))

\* The lines of the log that pass the filter of the call, in file order.
Passing ==
    LET Test(line) == PassesSince(line, call.since)
    IN  SelectSeq(log, Test)

\* C13: the list returns, in file order, the last limit records of the
\* records that pass the since filter: min(limit, number passing) of them,
\* a suffix of the passing sequence, ending with the most recent one.
C13_LastLimitInOrder ==
    (call.op = "list" /\ Authorized(call))
        => LET n == Len(Passing)
               m == Len(call.items)
           IN  /\ call.status = 200
               /\ m = (IF call.limit < n THEN call.limit ELSE n)
               /\ \A i \in 1..m : call.items[i].value = Passing[n - m + i].value
               /\ n > 0 => call.items[m].value = Passing[n].value

\* A list without since of a log of three records, cut to the last two.
C13_Witness ==
    /\ call.op = "list" /\ Authorized(call)
    /\ call.since = {} /\ call.limit = 2
    /\ Len(log) = 3
    /\ Len(call.items) = 2
    /\ call.items[2].value = log[3].value

\* The line is a well-formed record: an object whose "ts" is a string.
WellFormed(line) == line.text = "object" /\ line.ts = "str"

\* The well-formed records of the log that pass the filter of the call.
WellFormedPassing ==
    LET Test(line) ==
            /\ WellFormed(line)
            /\ call.since = {} \/ ~StrLeq(line.value.ts, TheOne(call.since))
    IN  SelectSeq(log, Test)

\* C16: with a correct token the list never fails because of a line of the
\* log: it answers 200, skips every line that is not a well-formed record
\* and returns the last limit of the well-formed records that pass.
C16_MalformedSkipped ==
    (call.op = "list" /\ Authorized(call))
        => LET n == Len(WellFormedPassing)
               m == Len(call.items)
           IN  /\ call.status = 200
               /\ m = (IF call.limit < n THEN call.limit ELSE n)
               /\ \A i \in 1..m :
                    /\ HasStamp(call.items[i])
                    /\ call.items[i].value = WellFormedPassing[n - m + i].value

\* The request has ended, passed the validation and not archived.
FailedAfterValidation(r) ==
    g[r].pc = "done" /\ ~RejectedInput(r) /\ g[r].appended = 0

\* The remote generation of the request succeeded: the output was fetched.
RemoteSucceeded(r) == g[r].gets = 1 /\ g[r].output_bytes # <<>>

\* C14: a request that fails after the validation, at whatever step, is
\* answered 500 with a body that holds the message and the class of the
\* error; 400 is the answer of the two validations only; and a failure of
\* the local archival after a successful remote generation is such a 500.
C14_FailuresAreServerErrors ==
    \A r \in Reqs :
        /\ g[r].pc = "done" => g[r].status \in {200, 400, 500}
        /\ FailedAfterValidation(r)
               => /\ g[r].status = 500
                  /\ g[r].body.error # "" /\ g[r].body.type # ""
        /\ (g[r].pc = "done" /\ g[r].status = 400) => RejectedInput(r)
        /\ (g[r].pc = "done" /\ g[r].status = 200) => g[r].appended = 1
        /\ (g[r].pc = "done" /\ All804(r)) => Raised(r, "TimeoutError")
        /\ (FailedAfterValidation(r) /\ RemoteSucceeded(r)) => Raised(r, "OSError")

\* A request whose blobs were both written and whose append failed, and one
\* that timed out.
C14_Witness ==
    /\ Raised("r1", "OSError")
    /\ Cardinality(g["r1"].wrote) = 2 /\ g["r1"].appended = 0
    /\ Raised("r2", "TimeoutError")

\* C15: the archive id that a successful request returns and records is
\* the UTC stamp, one underscore and the task id, with nothing in between.
C15_IdIsStampAndTaskId ==
    \A r \in Reqs :
        Succeeded(r)
            => /\ \E t \in 0..MaxTime :
                    g[r].body.archiveId = utc_stamp(t) \o <<"_">> \o g[r].body.taskId
               /\ \A i \in LinesOf(g[r].body.archiveId) :
                    log[i].value.id = log[i].value.ts \o <<"_">> \o log[i].value.taskId

\* The request is inside the loop of poll_outputs: in a query or asleep.
Polling(r) == g[r].pc \in {"poll", "sleep"}

\* C17: while a request is inside its polling loop another request can be
\* handled: a list call can be served, and a generation request that has
\* arrived can start.
C17_PollingDoesNotBlock ==
    \A r \in Reqs :
        Polling(r)
            => /\ ENABLED ArchiveList("s3cret", {}, 1)
               /\ \A q \in Reqs \ {r} :
                    (g[q].pc = "idle" /\ Arrived(q) /\ now <= MaxTime)
                        => ENABLED GenStart(q)

\* The steps of one request, from its record before (a) and after (b).
InOrder(a, b) ==
    /\ b.creates > a.creates
           => /\ a.creates = 0 /\ a.polled = <<>>
              /\ ~BadOption(a.posted) /\ a.input_bytes # <<>>
    /\ Len(b.polled) > Len(a.polled)
           => /\ Len(b.polled) = Len(a.polled) + 1
              /\ a.creates = 1 /\ a.task_id \in issued
              /\ a.polled = <<>> => (a.created.kind = "json" /\ a.created.code = 0)
              /\ a.gets = 0
    /\ b.gets > a.gets
           => /\ a.gets = 0 /\ a.wrote = {}
              /\ a.polled # <<>>
              /\ Last(a.polled).code = 0 /\ Last(a.polled).items # <<>>
    /\ b.wrote # a.wrote
           => /\ a.gets = 1 /\ a.output_bytes # <<>> /\ a.appended = 0
              /\ \E w \in b.wrote \ a.wrote :
                   /\ b.wrote = a.wrote \cup {w}
                   /\ IF a.wrote = {} THEN w.dir = "input"
                      ELSE w.dir = "output" /\ {v.dir : v \in a.wrote} = {"input"}
    /\ b.appended > a.appended
           => /\ a.appended = 0
              /\ Cardinality(a.wrote) = 2
              /\ {v.dir : v \in a.wrote} = {"input", "output"}
    /\ (b.status = 200 /\ a.status # 200) => b.appended = 1

C18_Step == \A r \in Reqs : InOrder(g[r], g'[r])

\* C18: within one request the steps happen in the order validation, one
\* create call, outputs queries, one GET of the output URL, write of the
\* input blob, write of the output blob, one append, success response, each
\* at most once except the outputs query; no query precedes a successful
\* create, no GET a terminal-success poll, no write a successful GET and no
\* append the two writes.
C18_StepsInOrder == [][C18_Step]_vars

\* A request has succeeded after two queries of the outputs endpoint.
C18_Witness ==
    /\ Succeeded("r1")
    /\ Len(g["r1"].polled) = 2
    /\ g["r1"].creates = 1 /\ g["r1"].gets = 1 /\ g["r1"].appended = 1

\* The archive of the run q is consistent in the folders and log given: the
\* input blob, the output blob and the record are all there or all absent.
Consistent(q, indir, outdir, lines) ==
    LET hasIn == InputFilename(q.ts, q.opt, q.task_id, q.mime) \in DOMAIN indir
        hasOut == OutputFilename(q.ts, q.opt, q.task_id) \in DOMAIN outdir
        hasRec == \E i \in 1..Len(lines) :
                     lines[i].value.id = ArchiveId(q.ts, q.opt, q.task_id)
    IN  (hasIn <=> hasOut) /\ (hasOut <=> hasRec)

C19_Step ==
    \A r \in Reqs :
        (g[r].pc # "done" /\ g'[r].pc = "done")
            => Consistent(g[r], inputDir', outputDir', log')

\* C19: when a generation request ends, in success or in an error at any
\* step, the input blob of its archive id exists if and only if the output
\* blob exists, if and only if the log holds the record: a failed request
\* leaves no orphan blob.
C19_NoOrphans == [][C19_Step]_vars

\* C20: no response of the generation endpoint holds the configured archive
\* token.
C20_TokenNotDisclosed ==
    \A r \in Reqs :
        (g[r].pc = "done" /\ ARCHIVE_TOKEN # "") => g[r].body.token # ARCHIVE_TOKEN

=============================================================================
